---- MODULE Spec2Model ----
(***************************************************************************)
(* Model of the column-detection utilities of pymutest:                    *)
(*   src/kmeans.py                              kmeans_1d                  *)
(*   src/column_detection_test/multi_column.py  is_the_double_column_resume*)
(*       and its helpers can_extend, in_bbox, intersects_bboxes,           *)
(*       extend_right, clean_nblocks, is_double_column_resume              *)
(*                                                                         *)
(* Numbers.  x0 coordinates are integers (fitz.IRect).  A centroid is the  *)
(* integer data value it was sampled from or the quotient sum/len of a     *)
(* cluster; it is modelled as the exact fraction <<n, d>> in lowest terms  *)
(* with d > 0, so that Python's numeric == on centroids is equality of the *)
(* pairs.  Distances are compared exactly (no floating-point rounding).    *)
(***************************************************************************)
EXTENDS Integers, Sequences, FiniteSets, TLC

VARIABLES
    pc,              \* position of the running code
    data,            \* kmeans_1d: argument data
    k,               \* kmeans_1d: argument k
    max_iterations,  \* kmeans_1d: argument max_iterations
    centroids,       \* kmeans_1d: local centroids (sequence of fractions)
    iteration,       \* kmeans_1d: number of loop rounds completed
    stop,            \* kmeans_1d: how the loop ended: "none", "break", "exhausted"
    cluster_labels,  \* kmeans_1d: returned labels (0-based), <<>> before the return
    x0_values,       \* is_double_column_resume: argument x0_values
    page_width,      \* page.rect.width
    is_double,       \* is_double_column_resume: "True" or "False" as returned,
                     \* "ZeroDivisionError" as raised, "none" before that
    km_calls,        \* number of calls of kmeans_1d made so far
    bboxes,          \* is_the_double_column_resume: text fragment boxes
    nblocks,         \* is_the_double_column_resume: the pre-filled new blocks;
                     \* clean_nblocks: the list cleaned in place
    path_bboxes,     \* boxes of vector graphics
    vert_bboxes,     \* boxes of non-horizontal text
    img_bboxes,      \* boxes of images
    idx,             \* extend_right: 1-based position of the loop over bboxes
    extended,        \* extend_right: positions whose box was replaced by temp
    returned,        \* value returned by is_the_double_column_resume
    cleaned          \* the calls of clean_nblocks made so far: argument and outcome

kmvars == <<data, k, max_iterations, centroids, iteration, stop, cluster_labels>>
clsvars == <<x0_values, page_width, is_double, km_calls>>
pgvars == <<bboxes, nblocks, path_bboxes, vert_bboxes, img_bboxes, idx, extended,
            returned, cleaned>>
vars == <<pc, kmvars, clsvars, pgvars>>

----------------------------------------------------------------------------
(* Bounds of the model *)

MaxLen == 4
MaxIter == 2
MaxCols == 7
KChoices == {1, 2, 3}
DataValues == {0, 1, 2, 5}
EdgeValues == {50, 52, 54, 400, 402}
ColumnValues == {50, 400}
PageWidths == {<<0, 1>>, <<500, 1>>, <<1600, 1>>}

XCoords == 0..3
YCoords == 0..2
MaxFrags == 3
MaxBlocks == 4
MaxCalls == 2

(* Constants of the program *)

DefaultMaxIterations == 100
GapDivisor == 4
MaxSizeRatio == 5
BottomTolerance == 10

----------------------------------------------------------------------------
(* Exact arithmetic on fractions *)

Abs(x) == IF x < 0 THEN -x ELSE x

RECURSIVE GCD(_, _)
GCD(a, b) == IF b = 0 THEN a ELSE GCD(b, a % b)

\* n/d in lowest terms, d > 0
Frac(n, d) ==
    LET g == GCD(Abs(n), d) IN <<n \div g, d \div g>>

\* abs(x - centroid) for an integer x and a fraction centroid
AbsDiff(x, c) == Frac(Abs(x * c[2] - c[1]), c[2])

FracLess(a, b) == a[1] * b[2] < b[1] * a[2]

RECURSIVE SeqSum(_)
SeqSum(s) == IF s = <<>> THEN 0 ELSE Head(s) + SeqSum(Tail(s))

Range(s) == {s[j] : j \in 1..Len(s)}

----------------------------------------------------------------------------
(* kmeans_1d *)

\* distances = [abs(x - centroid) for centroid in centroids]
RECURSIVE distances(_, _)
distances(x, cs) ==
    IF cs = <<>> THEN <<>>
    ELSE <<AbsDiff(x, Head(cs))>> \o distances(x, Tail(cs))

\* min(distances)
RECURSIVE MinFrac(_)
MinFrac(ds) ==
    IF Len(ds) = 1 THEN ds[1]
    ELSE LET m == MinFrac(Tail(ds)) IN
         IF FracLess(m, Head(ds)) THEN m ELSE Head(ds)

\* list.index(v): the first position holding v, 0-based
RECURSIVE IndexFrom(_, _, _)
IndexFrom(ds, v, j) == IF ds[j] = v THEN j - 1 ELSE IndexFrom(ds, v, j + 1)

\* list.index(v) read from the wrong end: the last position holding v
RECURSIVE IndexBack(_, _, _)
IndexBack(ds, v, j) == IF ds[j] = v THEN j - 1 ELSE IndexBack(ds, v, j - 1)

closest_centroid_last(x, cs) ==
    LET ds == distances(x, cs) IN IndexBack(ds, MinFrac(ds), Len(ds))

\* closest_centroid = distances.index(min(distances))
closest_centroid(x, cs) ==
    LET ds == distances(x, cs) IN IndexFrom(ds, MinFrac(ds), 1)

\* clusters[j .. k] after the assignment loop (j is 1-based here)
RECURSIVE clusters_from(_, _, _)
clusters_from(d, cs, j) ==
    IF j > Len(cs) THEN <<>>
    ELSE <<SelectSeq(d, LAMBDA x : closest_centroid(x, cs) = j - 1)>>
         \o clusters_from(d, cs, j + 1)

clusters(d, cs) == clusters_from(d, cs, 1)

\* a reseed that ignores the data
reseed_default(d) == {0}

\* random.choice(data): the values it can return
reseed_choices(d) == Range(d)

\* The new_centroids the loop body can build: the mean of each non-empty
\* cluster, and for each empty cluster any value of data.
new_centroids_set(d, cs) ==
    LET cl == clusters(d, cs)
        empty == {j \in 1..Len(cs) : cl[j] = <<>>}
    IN  { [j \in 1..Len(cs) |->
             IF cl[j] # <<>> THEN Frac(SeqSum(cl[j]), Len(cl[j]))
             ELSE Frac(r[j], 1)]
          : r \in [empty -> reseed_choices(d)] }

\* cluster_labels as lines 29-33 build it
RECURSIVE labels_of(_, _)
labels_of(d, cs) ==
    IF d = <<>> THEN <<>>
    ELSE <<closest_centroid(Head(d), cs)>> \o labels_of(Tail(d), cs)

\* random.sample(range(len(data)), k), sorted: the index sets it can return
sample_sets(d, kk) == {S \in SUBSET (1..Len(d)) : Cardinality(S) = kk}

\* [data[i] for i in sorted(S)]
RECURSIVE pick(_, _, _)
pick(d, S, j) ==
    IF j > Len(d) THEN <<>>
    ELSE IF j \in S THEN <<Frac(d[j], 1)>> \o pick(d, S, j + 1)
    ELSE pick(d, S, j + 1)

\* line 4: initial centroids
Sample ==
    /\ pc = "km_init"
    /\ \E S \in sample_sets(data, k) : centroids' = pick(data, S, 1)
    /\ iteration' = 0
    /\ pc' = "km_loop"
    /\ UNCHANGED <<data, k, max_iterations, stop, cluster_labels, clsvars, pgvars>>

\* lines 6-26: the loop head and, if range(max_iterations) is not exhausted,
\* one round of the loop
Iterate ==
    /\ pc = "km_loop"
    /\ IF iteration < max_iterations
       THEN \E nc \in new_centroids_set(data, centroids) :
              IF nc = centroids
              THEN /\ stop' = "break"
                   /\ pc' = "km_label"
                   /\ UNCHANGED <<centroids, iteration>>
              ELSE /\ centroids' = nc
                   /\ iteration' = iteration + 1
                   /\ UNCHANGED <<stop, pc>>
       ELSE /\ stop' = "exhausted"
            /\ pc' = "km_label"
            /\ UNCHANGED <<centroids, iteration>>
    /\ UNCHANGED <<data, k, max_iterations, cluster_labels, clsvars, pgvars>>

\* lines 29-35: final labels against the final centroids, and the return
Label ==
    /\ pc = "km_label"
    /\ cluster_labels' = labels_of(data, centroids)
    /\ pc' = "km_done"
    /\ UNCHANGED <<data, k, max_iterations, centroids, iteration, stop, clsvars, pgvars>>

\* Sequences of length lo..hi over S
SeqsOf(S, lo, hi) == UNION {[1..n -> S] : n \in lo..hi}

\* the frame of kmeans_1d before any call
NoCall ==
    /\ data = <<>>
    /\ k = 0
    /\ max_iterations = 0
    /\ centroids = <<>>
    /\ iteration = 0
    /\ stop = "none"
    /\ cluster_labels = <<>>

\* no classification in progress
NoClassify ==
    /\ x0_values = <<>>
    /\ page_width = <<0, 1>>
    /\ is_double = "none"
    /\ km_calls = 0

\* no page in progress
NoPage ==
    /\ bboxes = <<>>
    /\ nblocks = <<>>
    /\ path_bboxes = <<>>
    /\ vert_bboxes = <<>>
    /\ img_bboxes = <<>>
    /\ idx = 0
    /\ extended = {}
    /\ returned = "none"
    /\ cleaned = <<>>

KMInit ==
    /\ pc = "km_init"
    /\ NoClassify
    /\ NoPage
    /\ k \in KChoices
    /\ data \in SeqsOf(DataValues, k, MaxLen)
    /\ max_iterations \in 0..MaxIter
    /\ centroids = <<>>
    /\ iteration = 0
    /\ stop = "none"
    /\ cluster_labels = <<>>

KMNext == Sample \/ Iterate \/ Label

SpecKMeans == KMInit /\ [][KMNext]_vars

----------------------------------------------------------------------------
(* is_double_column_resume (multi_column.py, lines 220-234) *)

\* the centroid test with the division by 4 left out
centroid_gap_exceeds_full_width(cs, pw) ==
    Abs(cs[1][1] * cs[2][2] - cs[2][1] * cs[1][2]) * pw[2]
        > pw[1] * cs[1][2] * cs[2][2]

\* abs(centroids[0] - centroids[1]) > page_width / 4, page_width a fraction
centroid_gap_exceeds(cs, pw) ==
    GapDivisor * Abs(cs[1][1] * cs[2][2] - cs[2][1] * cs[1][2]) * pw[2]
        > pw[1] * cs[1][2] * cs[2][2]

\* clusters.count(v)
RECURSIVE count(_, _)
count(labels, v) ==
    IF labels = <<>> THEN 0
    ELSE (IF Head(labels) = v THEN 1 ELSE 0) + count(Tail(labels), v)

Max(a, b) == IF a >= b THEN a ELSE b
Min(a, b) == IF a <= b THEN a ELSE b

\* the outlier test with the guard left out
size_ratio_exceeds_never(count_0, count_1) == FALSE

\* the outlier test with the comparison turned round
size_ratio_exceeds_reversed(count_0, count_1) ==
    Max(count_0, count_1) < MaxSizeRatio * Min(count_0, count_1)

\* max(count_0, count_1) / min(count_0, count_1) > 5, for a divisor that is not 0
size_ratio_exceeds(count_0, count_1) ==
    Max(count_0, count_1) > MaxSizeRatio * Min(count_0, count_1)

\* lines 226-234: the value returned, or the error raised by the division
decision(cs, labels, pw) ==
    IF centroid_gap_exceeds(cs, pw)
    THEN LET count_0 == count(labels, 0)
             count_1 == count(labels, 1)
         IN  IF Min(count_0, count_1) = 0 THEN "ZeroDivisionError"
             ELSE IF size_ratio_exceeds(count_0, count_1) THEN "False"
             ELSE "True"
    ELSE "False"

\* lines 221-225: too few values, or the call of kmeans_1d(x0_values, k=2)
ClassifyEntry ==
    /\ pc = "cls_start"
    /\ IF Len(x0_values) < 2
       THEN /\ is_double' = "False"
            /\ pc' = "cls_done"
            /\ UNCHANGED <<kmvars, km_calls>>
       ELSE /\ data' = x0_values
            /\ k' = 2
            /\ max_iterations' = DefaultMaxIterations
            /\ km_calls' = km_calls + 1
            /\ pc' = "km_init"
            /\ UNCHANGED <<centroids, iteration, stop, cluster_labels, is_double>>
    /\ UNCHANGED <<x0_values, page_width, pgvars>>

\* lines 226-234
Decide ==
    /\ pc = "km_done"
    /\ is_double' = decision(centroids, cluster_labels, page_width)
    /\ pc' = "cls_done"
    /\ UNCHANGED <<kmvars, x0_values, page_width, km_calls, pgvars>>

ClassifyInit ==
    /\ pc = "cls_start"
    /\ NoCall
    /\ NoPage
    /\ x0_values \in SeqsOf(EdgeValues, 0, MaxLen)
                     \cup SeqsOf(ColumnValues, MaxLen + 1, MaxCols)
    /\ page_width \in PageWidths
    /\ is_double = "none"
    /\ km_calls = 0

ClassifyNext == ClassifyEntry \/ Sample \/ Iterate \/ Label \/ Decide

SpecClassify == ClassifyInit /\ [][ClassifyNext]_vars

----------------------------------------------------------------------------
(* Rectangles (fitz.IRect) as records [x0, y0, x1, y1] *)

Rect(a, b, c, d) == [x0 |-> a, y0 |-> b, x1 |-> c, y1 |-> d]

\* r.is_empty
is_empty(r) == r.x0 >= r.x1 \/ r.y0 >= r.y1

\* a & b: the common rectangle; an empty operand gives an empty result
rect_and(a, b) ==
    IF is_empty(b) THEN b
    ELSE IF is_empty(a) THEN a
    ELSE Rect(Max(a.x0, b.x0), Max(a.y0, b.y0), Min(a.x1, b.x1), Min(a.y1, b.y1))

\* bb in bbox
rect_in(bb, bbox) ==
    /\ bbox.x0 <= bb.x0 /\ bb.x0 <= bb.x1 /\ bb.x1 <= bbox.x1
    /\ bbox.y0 <= bb.y0 /\ bb.y0 <= bb.y1 /\ bb.y1 <= bbox.y1

\* int(page.rect.width) for a width that is not negative
int_of(fr) == fr[1] \div fr[2]

----------------------------------------------------------------------------
(* Helpers of is_the_double_column_resume *)

\* in_bbox: 1-based number of the first box containing bb, else 0
RECURSIVE in_bbox_from(_, _, _)
in_bbox_from(bb, boxes, i) ==
    IF i > Len(boxes) THEN 0
    ELSE IF rect_in(bb, boxes[i]) THEN i
    ELSE in_bbox_from(bb, boxes, i + 1)

in_bbox(bb, boxes) == in_bbox_from(bb, boxes, 1)

\* intersects_bboxes
RECURSIVE intersects_bboxes(_, _)
intersects_bboxes(bb, boxes) ==
    IF boxes = <<>> THEN FALSE
    ELSE IF ~is_empty(rect_and(bb, Head(boxes))) THEN TRUE
    ELSE intersects_bboxes(bb, Tail(boxes))

\* can_extend with the test against the other text boxes left out
can_extend_obstacles_only(temp, bb, bboxlist, verts) ==
    ~intersects_bboxes(temp, verts)

\* can_extend (vert_bboxes is the enclosing function's list)
RECURSIVE can_extend(_, _, _, _)
can_extend(temp, bb, bboxlist, verts) ==
    IF bboxlist = <<>> THEN TRUE
    ELSE LET b == Head(bboxlist) IN
         IF /\ ~intersects_bboxes(temp, verts)
            /\ (b = bb \/ is_empty(rect_and(temp, b)))
         THEN can_extend(temp, bb, Tail(bboxlist), verts)
         ELSE FALSE

\* lexicographic <= on tuples of integers of one length
RECURSIVE key_leq(_, _)
key_leq(a, b) ==
    IF a = <<>> THEN TRUE
    ELSE IF Head(a) < Head(b) THEN TRUE
    ELSE IF Head(a) > Head(b) THEN FALSE
    ELSE key_leq(Tail(a), Tail(b))

\* one insertion of a stable sort: p = <<key, item>> goes behind every entry
\* whose key is not greater
RECURSIVE insert_stable(_, _)
insert_stable(sorted, p) ==
    IF sorted = <<>> THEN <<p>>
    ELSE IF key_leq(Head(sorted)[1], p[1])
         THEN <<Head(sorted)>> \o insert_stable(Tail(sorted), p)
         ELSE <<p>> \o sorted

\* list.sort / sorted (stable) of <<key, item>> pairs
RECURSIVE sort_pairs(_)
sort_pairs(ps) ==
    IF ps = <<>> THEN <<>>
    ELSE insert_stable(sort_pairs(SubSeq(ps, 1, Len(ps) - 1)), ps[Len(ps)])

RECURSIVE items_of(_)
items_of(ps) == IF ps = <<>> THEN <<>> ELSE <<Head(ps)[2]>> \o items_of(Tail(ps))

\* line 281: bboxes.sort(key=lambda k: (in_bbox(k, path_bboxes), k.y0, k.x0))
RECURSIVE fragment_keys(_, _)
fragment_keys(boxes, paths) ==
    IF boxes = <<>> THEN <<>>
    ELSE << << <<in_bbox(Head(boxes), paths), Head(boxes).y0, Head(boxes).x0>>,
               Head(boxes) >> >>
         \o fragment_keys(Tail(boxes), paths)

sort_fragments(boxes, paths) == items_of(sort_pairs(fragment_keys(boxes, paths)))

\* lines 134-135: temp = +bb; temp.x1 = width
extend_temp(bb, w) == [bb EXCEPT !.x1 = w]

\* lines 126-143: whether the round for position i reaches line 144
extend_accepts(boxes, i, w, paths, verts, imgs) ==
    LET bb == boxes[i]
        temp == extend_temp(bb, w)
    IN  IF in_bbox(bb, paths) # 0 THEN FALSE
        ELSE IF in_bbox(bb, imgs) # 0 THEN FALSE
        ELSE IF intersects_bboxes(temp, paths \o verts \o imgs) THEN FALSE
        ELSE can_extend(temp, bb, boxes, verts)

\* line 303: all_x0_values = [bbox.x0 for bbox in bboxes]
RECURSIVE x0s(_)
x0s(boxes) == IF boxes = <<>> THEN <<>> ELSE <<Head(boxes).x0>> \o x0s(Tail(boxes))

----------------------------------------------------------------------------
(* is_the_double_column_resume, from the sort of the fragments (line 281) *)

\* line 281
SortFragments ==
    /\ pc = "pg_sort"
    /\ bboxes' = sort_fragments(bboxes, path_bboxes)
    /\ idx' = 1
    /\ pc' = "pg_extend"
    /\ UNCHANGED <<kmvars, clsvars, nblocks, path_bboxes, vert_bboxes, img_bboxes,
                   extended, returned, cleaned>>

\* lines 124-144: one round of the loop of extend_right
ExtendStep ==
    /\ pc = "pg_extend"
    /\ idx <= Len(bboxes)
    /\ IF extend_accepts(bboxes, idx, int_of(page_width), path_bboxes,
                         vert_bboxes, img_bboxes)
       THEN /\ bboxes' = [bboxes EXCEPT
                            ![idx] = extend_temp(bboxes[idx], int_of(page_width))]
            /\ extended' = extended \cup {idx}
       ELSE UNCHANGED <<bboxes, extended>>
    /\ idx' = idx + 1
    /\ UNCHANGED <<pc, kmvars, clsvars, nblocks, path_bboxes, vert_bboxes,
                   img_bboxes, returned, cleaned>>

\* line 146: extend_right returns the list
ExtendReturn ==
    /\ pc = "pg_extend"
    /\ idx > Len(bboxes)
    /\ pc' = "pg_join"
    /\ UNCHANGED <<kmvars, clsvars, pgvars>>

\* lines 289-304: no text, or the pre-fill of nblocks and the call of
\* is_double_column_resume on the x0 of the remaining boxes
Join ==
    /\ pc = "pg_join"
    /\ IF bboxes = <<>>
       THEN /\ returned' = "[]"
            /\ pc' = "pg_done"
            /\ UNCHANGED <<bboxes, nblocks, x0_values>>
       ELSE /\ nblocks' = <<bboxes[1]>>
            /\ bboxes' = Tail(bboxes)
            /\ x0_values' = x0s(Tail(bboxes))
            /\ pc' = "cls_start"
            /\ UNCHANGED returned
    /\ UNCHANGED <<kmvars, page_width, is_double, km_calls, path_bboxes,
                   vert_bboxes, img_bboxes, idx, extended, cleaned>>

\* line 306
PageReturn ==
    /\ pc = "cls_done"
    /\ returned' = is_double
    /\ pc' = "pg_done"
    /\ UNCHANGED <<kmvars, clsvars, bboxes, nblocks, path_bboxes, vert_bboxes,
                   img_bboxes, idx, extended, cleaned>>


Boxes ==
    {Rect(a, b, c, d) : a \in XCoords, b \in YCoords, c \in XCoords, d \in YCoords}
        \ {r \in {Rect(a, b, c, d) : a \in XCoords, b \in YCoords,
                                      c \in XCoords, d \in YCoords} : is_empty(r)}

\* blocks with bottoms 10, 20, 25 and 40 and left edges 0, 1, 2
BlockPool ==
    {Rect(2, 0, 3, 10), Rect(1, 12, 2, 20), Rect(0, 21, 1, 25), Rect(1, 30, 3, 40),
     Rect(0, 12, 1, 20)}

Obstacles ==
    {Rect(0, 0, 3, 2), Rect(2, 0, 3, 1), Rect(1, 1, 2, 2), Rect(0, 0, 2, 1),
     Rect(0, 1, 3, 2)}

Disjoint(boxes) ==
    \A i, j \in 1..Len(boxes) :
        i # j => is_empty(rect_and(boxes[i], boxes[j]))

\* at most one obstacle of each of the three kinds
ObstacleLists == {<<>>} \cup {<<o>> : o \in Obstacles}

ObstacleLayouts == ObstacleLists \X ObstacleLists \X ObstacleLists

PageInit ==
    /\ pc = "pg_sort"
    /\ NoCall
    /\ bboxes \in {f \in SeqsOf(Boxes, 0, MaxFrags) : Disjoint(f)}
    /\ \E lay \in ObstacleLayouts :
          /\ path_bboxes = lay[1]
          /\ vert_bboxes = lay[2]
          /\ img_bboxes = lay[3]
    /\ page_width \in {<<3, 1>>, <<7, 2>>}
    /\ x0_values = <<>>
    /\ is_double = "none"
    /\ km_calls = 0
    /\ nblocks = <<>>
    /\ idx = 0
    /\ extended = {}
    /\ returned = "none"
    /\ cleaned = <<>>

PageNext ==
    \/ SortFragments \/ ExtendStep \/ ExtendReturn \/ Join
    \/ ClassifyEntry \/ Sample \/ Iterate \/ Label \/ Decide
    \/ PageReturn

SpecPage == PageInit /\ [][PageNext]_vars

----------------------------------------------------------------------------
(* clean_nblocks (multi_column.py, lines 148-183) *)

Ok(list) == [ok |-> TRUE, list |-> list]
IndexError(list) == [ok |-> FALSE, list |-> list]

\* del nblocks[i] (p is 1-based)
remove_at(s, p) == SubSeq(s, 1, p - 1) \o SubSeq(s, p + 1, Len(s))

\* lines 156-160: the loop for i in range(start, -1, -1), from round i on.
\* nblocks[i - 1] is the last element when i = 0.
RECURSIVE remove_duplicates(_, _)
remove_duplicates(s, i) ==
    IF i < 0 THEN Ok(s)
    ELSE IF i >= Len(s) THEN IndexError(s)
    ELSE LET bb1 == s[i + 1]
             bb0 == IF i = 0 THEN s[Len(s)] ELSE s[i]
         IN  IF bb0 = bb1 THEN remove_duplicates(remove_at(s, i + 1), i - 1)
             ELSE remove_duplicates(s, i - 1)

\* sorted(nblocks[i0 : i1 + 1], key=lambda b: b.x0) assigned to the slice
\* (i0, i1 are 0-based)
RECURSIVE x0_keys(_)
x0_keys(boxes) ==
    IF boxes = <<>> THEN <<>>
    ELSE << << <<Head(boxes).x0>>, Head(boxes) >> >> \o x0_keys(Tail(boxes))

sort_segment(s, i0, i1) ==
    SubSeq(s, 1, i0)
    \o items_of(sort_pairs(x0_keys(SubSeq(s, i0 + 1, i1 + 1))))
    \o SubSeq(s, i1 + 2, Len(s))

\* lines 171-183: the loop for i in range(1, len(nblocks)), from round i on,
\* and the sort of the last segment
RECURSIVE repair_sequence(_, _, _, _, _)
repair_sequence(s, i, y1, i0, i1) ==
    IF i >= Len(s)
    THEN IF i1 > i0 THEN sort_segment(s, i0, i1) ELSE s
    ELSE LET b1 == s[i + 1] IN
         IF Abs(b1.y1 - y1) > BottomTolerance
         THEN repair_sequence(IF i1 > i0 THEN sort_segment(s, i0, i1) ELSE s,
                              i + 1, b1.y1, i, i)
         ELSE repair_sequence(s, i + 1, y1, i0, i)

\* clean_nblocks: the list returned, or the IndexError raised at line 165
clean_nblocks(list) ==
    IF Len(list) < 2 THEN Ok(list)
    ELSE LET d == remove_duplicates(list, Len(list) - 1) IN
         IF ~d.ok THEN d
         ELSE IF d.list = <<>> THEN IndexError(d.list)
         ELSE Ok(repair_sequence(d.list, 1, d.list[1].y1, 0, -1))

\* a call of clean_nblocks on the list the previous call left
CleanCall ==
    /\ pc = "cl_call"
    /\ Len(cleaned) < MaxCalls
    /\ LET out == clean_nblocks(nblocks) IN
       /\ cleaned' = Append(cleaned, [arg |-> nblocks, ok |-> out.ok, list |-> out.list])
       /\ nblocks' = out.list
       /\ pc' = IF out.ok THEN "cl_call" ELSE "cl_raised"
    /\ UNCHANGED <<kmvars, clsvars, bboxes, path_bboxes, vert_bboxes, img_bboxes,
                   idx, extended, returned>>

CleanInit ==
    /\ pc = "cl_call"
    /\ NoCall
    /\ NoClassify
    /\ bboxes = <<>>
    /\ nblocks \in SeqsOf(BlockPool, 0, MaxBlocks)
    /\ path_bboxes = <<>>
    /\ vert_bboxes = <<>>
    /\ img_bboxes = <<>>
    /\ idx = 0
    /\ extended = {}
    /\ returned = "none"
    /\ cleaned = <<>>

CleanNext == CleanCall

SpecClean == CleanInit /\ [][CleanNext]_vars

----------------------------------------------------------------------------
(* Properties of kmeans_1d, checked under SpecKMeans *)

\* |x - a| <= |x - b| for an integer x and fractions a, b
NoFarther(x, a, b) ==
    Abs(x * a[2] - a[1]) * b[2] <= Abs(x * b[2] - b[1]) * a[2]

\* C1: kmeans_1d returns exactly k centers and one label per data point,
\* each label in [0,k), and each point's label is the lowest index among the
\* returned centers at minimum absolute distance from the point, whether the
\* loop stopped on unchanged centers or by exhausting max_iterations.
C1_LabelsNearestLowest ==
    pc = "km_done" =>
        /\ Len(centroids) = k
        /\ Len(cluster_labels) = Len(data)
        /\ \A i \in 1..Len(data) :
              LET l == cluster_labels[i] IN
              /\ l \in 0..(k - 1)
              /\ \A j \in 1..k : NoFarther(data[i], centroids[l + 1], centroids[j])
              /\ \A j \in 1..l : ~NoFarther(data[i], centroids[j], centroids[l + 1])

\* a return after the loop ran out of rounds without the centers having
\* settled, with a point that has two nearest centers
C1_Witness ==
    /\ pc = "km_done"
    /\ stop = "exhausted"
    /\ iteration > 0
    /\ centroids \notin new_centroids_set(data, centroids)
    /\ \E i \in 1..Len(data) : \E j \in 1..k :
          /\ j # cluster_labels[i] + 1
          /\ NoFarther(data[i], centroids[j], centroids[cluster_labels[i] + 1])

----------------------------------------------------------------------------
(* Properties of is_double_column_resume, checked under SpecClassify *)

\* |c0 - c1| > pw / 4
GapOverQuarter(cs, pw) ==
    4 * pw[2] * Abs(cs[1][1] * cs[2][2] - cs[2][1] * cs[1][2])
        > pw[1] * cs[1][2] * cs[2][2]

SizeOf(labels, v) == Cardinality({i \in 1..Len(labels) : labels[i] = v})

Larger(labels) == Max(SizeOf(labels, 0), SizeOf(labels, 1))
Smaller(labels) == Min(SizeOf(labels, 0), SizeOf(labels, 1))

\* C2: with fewer than 2 values the result is single and kmeans_1d is not
\* called; otherwise the result is double exactly when the two returned
\* centers differ by more than page_width/4 and the larger cluster is at most
\* 5 times the smaller one, and single in every other case.
C2_ClassifyRule ==
    pc = "cls_done" =>
        IF Len(x0_values) < 2
        THEN is_double = "False" /\ km_calls = 0
        ELSE /\ km_calls = 1
             /\ is_double =
                  (IF /\ GapOverQuarter(centroids, page_width)
                      /\ Larger(cluster_labels) <= 5 * Smaller(cluster_labels)
                   THEN "True" ELSE "False")

\* a wide centroid gap downgraded to single by the outlier guard
C2_Witness ==
    /\ pc = "cls_done"
    /\ Len(x0_values) >= 2
    /\ GapOverQuarter(centroids, page_width)
    /\ Smaller(cluster_labels) >= 1
    /\ Larger(cluster_labels) > 5 * Smaller(cluster_labels)
    /\ is_double = "False"

Scenario3 ==
    /\ pc = "cls_done"
    /\ x0_values = <<50, 52, 54, 400>>
    /\ page_width = <<500, 1>>

\* C3 as claimed: for the x0 values [50, 52, 54, 400] on a page of width 500
\* the result is single for every outcome of the random sampling.
C3_OutlierIsSingle == Scenario3 => is_double = "False"

\* C3 as amended: for the x0 values [50, 52, 54, 400] on a page of width 500
\* the result is double for every outcome of the random sampling: the centers
\* are 52 and 400, and the 3:1 size ratio does not exceed 5.
C3_OutlierIsDouble ==
    Scenario3 =>
        /\ centroids = << <<52, 1>>, <<400, 1>> >>
        /\ cluster_labels = <<0, 0, 0, 1>>
        /\ is_double = "True"

\* the scenario classified after both initial centers were drawn from the
\* left group
C3_Witness == Scenario3 /\ iteration >= 2

InGroup(v, c) == Abs(v - c) <= 4

TwoTightColumns(xs) ==
    LET nl == Cardinality({i \in 1..Len(xs) : InGroup(xs[i], 50)})
        nr == Cardinality({i \in 1..Len(xs) : InGroup(xs[i], 400)})
    IN  /\ \A i \in 1..Len(xs) : InGroup(xs[i], 50) \/ InGroup(xs[i], 400)
        /\ nl >= 1
        /\ nr >= 1
        /\ Max(nl, nr) <= 5 * Min(nl, nr)

\* C7: on a page of width 500 whose left edges all lie within a few units
\* of 50 or of 400, with at least one in each group and neither group more
\* than five times the other, the result is double for every outcome of the
\* random choices.
C7_TwoColumnsIsDouble ==
    (pc = "cls_done" /\ page_width = <<500, 1>> /\ TwoTightColumns(x0_values))
        => is_double = "True"

\* two columns of sizes 5 and 1, classified after more than one update of
\* the centers
C7_Witness ==
    /\ pc = "cls_done"
    /\ page_width = <<500, 1>>
    /\ TwoTightColumns(x0_values)
    /\ Len(x0_values) = 6
    /\ SizeOf(cluster_labels, 0) = 1
    /\ iteration >= 2

\* C9: the outlier guard never divides by zero: whenever the two returned
\* centers differ by more than page_width/4 the returned labels contain at
\* least one 0 and at least one 1.
C9_NoDivisionByZero ==
    /\ is_double # "ZeroDivisionError"
    /\ (pc = "km_done" /\ GapOverQuarter(centroids, page_width))
          => (0 \in Range(cluster_labels) /\ 1 \in Range(cluster_labels))

\* the guard's division evaluated with one cluster holding a single point,
\* on a page of width 0
C9_Witness ==
    /\ pc = "cls_done"
    /\ Len(x0_values) > 2
    /\ page_width = <<0, 1>>
    /\ GapOverQuarter(centroids, page_width)
    /\ Smaller(cluster_labels) = 1

----------------------------------------------------------------------------
(* Properties of the page pass, checked under SpecPage *)

\* two non-empty rectangles share area
Overlap(a, b) == a.x0 < b.x1 /\ b.x0 < a.x1 /\ a.y0 < b.y1 /\ b.y0 < a.y1

\* C4: given mutually disjoint fragment boxes, after extend_right every
\* fragment whose box was extended to the right page border intersects no
\* shape rectangle, no vertical-text box, no image rectangle and no other
\* fragment box of the returned list.
C4_ExtensionSafe ==
    pc = "pg_join" =>
        \A i \in extended :
            /\ \A o \in Range(path_bboxes) \cup Range(vert_bboxes) \cup Range(img_bboxes) :
                  ~Overlap(bboxes[i], o)
            /\ \A j \in 1..Len(bboxes) : j # i => ~Overlap(bboxes[i], bboxes[j])

\* extend_right returned with two boxes extended, a third one refused, and
\* a shape, a vertical text and an image on the page
C4_Witness ==
    /\ pc = "pg_join"
    /\ Cardinality(extended) >= 2
    /\ \E j \in 1..Len(bboxes) : j \notin extended /\ bboxes[j].x1 < int_of(page_width)
    /\ path_bboxes # <<>>
    /\ vert_bboxes # <<>>
    /\ img_bboxes # <<>>

\* C6: the entry point runs the classification on the x0 of every fragment
\* box of the sorted, right-extended list, so kmeans_1d is called for every
\* page with at least 2 fragments.
C6_EveryFragmentClustered ==
    (pc = "pg_done" /\ returned # "[]") =>
        /\ x0_values = x0s(nblocks \o bboxes)
        /\ (Len(nblocks \o bboxes) >= 2 => km_calls = 1)

----------------------------------------------------------------------------
(* Properties of clean_nblocks, checked under SpecClean *)

\* C5: clean_nblocks is idempotent: a second call on the result of the first
\* returns the same list, element for element and in the same order.
C5_CleanupIdempotent ==
    Len(cleaned) = 2 =>
        /\ cleaned[2].ok
        /\ cleaned[2].list = cleaned[1].list

\* C8: the list clean_nblocks returns contains no two equal boxes, wherever
\* the duplicates were in the argument.
C8_NoDuplicatesLeft ==
    (Len(cleaned) >= 1 /\ cleaned[1].ok) =>
        \A i, j \in 1..Len(cleaned[1].list) :
            i # j => cleaned[1].list[i] # cleaned[1].list[j]

\* C10: clean_nblocks on a non-empty list raises no error and returns a
\* non-empty list in which every distinct box of the argument still occurs.
C10_CleanupKeepsEveryBox ==
    (Len(cleaned) >= 1 /\ cleaned[1].arg # <<>>) =>
        /\ cleaned[1].ok
        /\ cleaned[1].list # <<>>
        /\ Range(cleaned[1].arg) \subseteq Range(cleaned[1].list)

====
